---- MODULE Spec2Model ----
(***************************************************************************)
(* A model of grid_util: the grid containers of src/grid.rs (SimpleGrid,   *)
(* SimpleValueGrid, BoolGrid), Direction of src/direction.rs and Rect of   *)
(* src/rect.rs.                                                            *)
(*                                                                         *)
(* Four specifications share the variables: SpecGrid drives one container  *)
(* through get / get_mut / set calls, SpecGridProvided drives it through   *)
(* set and the provided methods of the traits (set_rect, get_rect, get_ix, *)
(* get_ix_mut, set_ix), SpecDirection applies the Direction methods,       *)
(* SpecRect applies the Rect methods.  A specification keeps the variables *)
(* of the parts it does not drive at their idle values.                    *)
(*                                                                         *)
(* Every call is one action; its arguments and its result are recorded in  *)
(* a "call" variable.  A panic ends the behaviour: no action is enabled    *)
(* once a call has panicked.                                               *)
(***************************************************************************)
EXTENDS Integers, Sequences, FiniteSets, TLC

VARIABLES
    overflow_checks, \* build profile: TRUE = arithmetic overflow panics (debug), FALSE = it wraps (release)
    grid,            \* the container under test: [kind, width, height, values]
    dflt,            \* the default_value given to new
    last,            \* history: per in-bounds cell, the value of the last in-bounds set (or dflt)
    oob,             \* history: some call so far had out-of-bounds coordinates
    call,            \* the most recent container call: [op, x, y, v, ret, rect, vec, ix]
    nops,            \* number of container calls made
    dself,           \* the Direction the methods are called on
    dprev,           \* the Direction before the most recent rotation
    dcall,           \* the most recent Direction call: [op, n, other, angle, ret]
    rect,            \* the Rect the methods are called on
    rcall            \* the most recent Rect call: [op, a, pts, halves]

vars == <<overflow_checks, grid, dflt, last, oob, call, nops,
          dself, dprev, dcall, rect, rcall>>

----------------------------------------------------------------------------
(* Bounds of the model *)

\* container calls per behaviour
MaxOps == 2
\* rotation arguments range over -MaxEights..MaxEights and the i32 extremes
MaxEights == 9
\* rectangle origins range over -MaxCoord..MaxCoord
MaxCoord == 2
\* rectangle widths and heights range over -1..MaxSize
MaxSize == 3

----------------------------------------------------------------------------
(* Machine integers *)

I32_MAX == 2147483647
I32_MIN == (-2147483647) - 1

\* `usize as i32`: the low 32 bits as a signed value.  Every usize of the model
\* is below 2^31, where the cast keeps the value.
AsI32(n) == IF n <= I32_MAX THEN n ELSE ((n - I32_MAX) - I32_MAX) - 2

\* A usize (64 bits) is either a small value n, [top |-> FALSE, n |-> n], or a
\* value just below 2^64, [top |-> TRUE, n |-> n] standing for 2^64 - n (n > 0).
USize(n) == [top |-> FALSE, n |-> n]

\* `i32 as usize`: sign extension, so a negative x becomes 2^64 - |x|.
AsUsize(x) == IF x >= 0 THEN [top |-> FALSE, n |-> x] ELSE [top |-> TRUE, n |-> -x]

\* a * w on usize, w a small value: the wrapped product and whether it overflowed.
UMul(a, w) ==
    IF ~a.top THEN [val |-> USize(a.n * w), ovf |-> FALSE]
    ELSE IF w = 0 THEN [val |-> USize(0), ovf |-> FALSE]
    ELSE IF w = 1 THEN [val |-> a, ovf |-> FALSE]
    ELSE [val |-> [top |-> TRUE, n |-> a.n * w], ovf |-> TRUE]

\* a + b on usize: the wrapped sum and whether it overflowed.
UAdd(a, b) ==
    IF ~a.top /\ ~b.top THEN [val |-> USize(a.n + b.n), ovf |-> FALSE]
    ELSE IF a.top /\ b.top THEN [val |-> [top |-> TRUE, n |-> a.n + b.n], ovf |-> TRUE]
    ELSE LET m == IF a.top THEN a.n ELSE b.n
             k == IF a.top THEN b.n ELSE a.n
         IN  IF k >= m THEN [val |-> USize(k - m), ovf |-> TRUE]
             ELSE [val |-> [top |-> TRUE, n |-> m - k], ovf |-> FALSE]

\* Vec indexing `v[i]` succeeds iff i < v.len(); a value near 2^64 never is.
InVec(i, len) == ~i.top /\ i.n < len

----------------------------------------------------------------------------
(* 64-bit words: a u64 is the set of the positions of its one bits *)

WordBits == 64
U64_MAX == 0 .. (WordBits - 1)
U64_MIN == {}
Shl1(k) == {k}
BitAnd(a, b) == a \cap b
BitOr(a, b) == a \cup b
BitNot(a) == U64_MAX \ a

----------------------------------------------------------------------------
(* Results *)

Ok(v) == [tag |-> "Ok", val |-> v]
Some(v) == [tag |-> "Some", val |-> v]
\* None and a panic carry the default value, so that val has one type throughout
None == [tag |-> "None", val |-> dflt]
Panic == [tag |-> "Panic", val |-> dflt]

----------------------------------------------------------------------------
(* src/rect.rs *)

\* Point::new
Point_new(x, y) == [x |-> x, y |-> y]

\* Rect::new
Rect_new(x, y, w, h) == [x1 |-> x, y1 |-> y, x2 |-> x + w, y2 |-> y + h]

\* Rect::width, Rect::height
Rect_width(r) == r.x2 - r.x1
Rect_height(r) == r.y2 - r.y1

\* Rect::points_in: for x in x1..=x2 { for y in y1..=y2 { vec.push(..) } }
RECURSIVE points_in_y(_, _, _, _)
points_in_y(vec, x, y, y2) ==
    IF y > y2 THEN vec ELSE points_in_y(Append(vec, Point_new(x, y)), x, y + 1, y2)

RECURSIVE points_in_x(_, _, _)
points_in_x(vec, r, x) ==
    IF x > r.x2 THEN vec ELSE points_in_x(points_in_y(vec, x, r.y1, r.y2), r, x + 1)

\* a variant with half-open ranges x1..x2, y1..y2
points_in_half_open(r) ==
    points_in_x(<<>>, [r EXCEPT !.x2 = @ - 1, !.y2 = @ - 1], r.x1)

points_in(r) == points_in_x(<<>>, r, r.x1)

\* Rect::split_x
split_x(r, x) ==
    <<Rect_new(r.x1, r.y1, x, Rect_height(r)),
      Rect_new(r.x1 + x + 1, r.y1, Rect_width(r) - x - 1, Rect_height(r))>>

\* Rect::split_y
split_y(r, y) ==
    <<Rect_new(r.x1, r.y1, Rect_width(r), y),
      Rect_new(r.x1, r.y1 + y + 1, Rect_width(r), Rect_height(r) - y - 1)>>

\* Rect::intersect
intersect(r, other) ==
    r.x1 <= other.x2 /\ r.x2 >= other.x1 /\ r.y1 <= other.y2 /\ r.y2 >= other.y1

\* Rect::contains
contains(r, point) ==
    r.x1 <= point.x /\ point.x <= r.x2 /\ r.y1 <= point.y /\ point.y <= r.y2

NoRect == Rect_new(0, 0, 0, 0)

----------------------------------------------------------------------------
(* src/grid.rs *)

\* ValueGrid::index_in_bounds
ValueGrid_index_in_bounds(g, x, y) ==
    x >= 0 /\ y >= 0 /\ x < AsI32(g.width) /\ y < AsI32(g.height)

\* a variant whose column test is off by one (x <= width)
Grid_index_in_bounds_le(g, x, y) ==
    x >= 0 /\ y >= 0 /\ x <= AsI32(g.width) /\ y < AsI32(g.height)

\* Grid::index_in_bounds
Grid_index_in_bounds(g, x, y) ==
    x >= 0 /\ y >= 0 /\ x < AsI32(g.width) /\ y < AsI32(g.height)

\* a variant whose row stride is the height
ValueGrid_get_ix_height(g, x, y) ==
    LET p == UMul(AsUsize(y), g.height)
        s == UAdd(AsUsize(x), p.val)
    IN  [panic |-> overflow_checks /\ (p.ovf \/ s.ovf), ix |-> s.val]

\* ValueGrid::get_ix: x as usize + (y as usize) * self.width()
\* [panic, ix]: panic when an overflow is checked, else the wrapped index
ValueGrid_get_ix(g, x, y) ==
    LET p == UMul(AsUsize(y), g.width)
        s == UAdd(AsUsize(x), p.val)
    IN  [panic |-> overflow_checks /\ (p.ovf \/ s.ovf), ix |-> s.val]

\* Grid::compute_ix: x as usize + y as usize * self.width()
Grid_compute_ix(g, x, y) ==
    LET p == UMul(AsUsize(y), g.width)
        s == UAdd(AsUsize(x), p.val)
    IN  [panic |-> overflow_checks /\ (p.ovf \/ s.ovf), ix |-> s.val]

\* SimpleGrid::new
SimpleGrid_new(w, h, d) ==
    [kind |-> "SimpleGrid", width |-> w, height |-> h,
     values |-> [i \in 1 .. (w * h) |-> d]]

\* SimpleValueGrid::new
SimpleValueGrid_new(w, h, d) ==
    [kind |-> "SimpleValueGrid", width |-> w, height |-> h,
     values |-> [i \in 1 .. (w * h) |-> d]]

\* a variant that allocates floor(width * height / 64) words, without the 1 +
BoolGrid_new_floor(w, h, d) ==
    LET default_value == IF d THEN U64_MAX ELSE U64_MIN
    IN  [kind |-> "BoolGrid", width |-> w, height |-> h,
         values |-> [i \in 1 .. ((w * h) \div WordBits) |-> default_value]]

\* BoolGrid::new: vec![default_value; 1 + (width * height) / 64_usize]
BoolGrid_new(w, h, d) ==
    LET default_value == IF d THEN U64_MAX ELSE U64_MIN
    IN  [kind |-> "BoolGrid", width |-> w, height |-> h,
         values |-> [i \in 1 .. (1 + ((w * h) \div WordBits)) |-> default_value]]

\* SimpleGrid::get: Some(&values[ix]) in bounds, else None
SimpleGrid_get(g, x, y) ==
    IF Grid_index_in_bounds(g, x, y)
    THEN LET r == Grid_compute_ix(g, x, y)
         IN  IF r.panic \/ ~InVec(r.ix, Len(g.values)) THEN Panic
             ELSE Some(g.values[r.ix.n + 1])
    ELSE None

\* SimpleGrid::get_mut: the same lookup, for writing
SimpleGrid_get_mut(g, x, y) ==
    IF Grid_index_in_bounds(g, x, y)
    THEN LET r == Grid_compute_ix(g, x, y)
         IN  IF r.panic \/ ~InVec(r.ix, Len(g.values)) THEN Panic
             ELSE Some(g.values[r.ix.n + 1])
    ELSE None

\* a variant that writes through the index without the bounds test of get_mut
Grid_set_anywhere(g, x, y, value) ==
    LET r == Grid_compute_ix(g, x, y)
    IN  IF r.panic \/ ~InVec(r.ix, Len(g.values)) THEN [ret |-> Panic, grid |-> g]
        ELSE [ret |-> Ok(value),
              grid |-> [g EXCEPT !.values[r.ix.n + 1] = value]]

\* Grid::set: self.get_mut(x, y).map(|x| *x = value).  [ret, grid]
Grid_set(g, x, y, value) ==
    LET m == SimpleGrid_get_mut(g, x, y)
    IN  IF m.tag = "Panic" THEN [ret |-> Panic, grid |-> g]
        ELSE IF m.tag = "None" THEN [ret |-> Ok(value), grid |-> g]
        ELSE [ret |-> Ok(value),
              grid |-> [g EXCEPT !.values[Grid_compute_ix(g, x, y).ix.n + 1] = value]]

\* Grid::get_ix: let w = self.width(); let i = ix % w; let j = ix / w;
\* self.get(i as i32, j as i32).  With w = 0 the remainder panics ("attempt
\* to calculate the remainder with a divisor of zero"), in every build.
Grid_get_ix(g, ix) ==
    LET w == g.width
    IN  IF w = 0 THEN Panic
        ELSE SimpleGrid_get(g, AsI32(ix % w), AsI32(ix \div w))

\* Grid::get_ix_mut: the same, through get_mut
Grid_get_ix_mut(g, ix) ==
    LET w == g.width
    IN  IF w = 0 THEN Panic
        ELSE SimpleGrid_get_mut(g, AsI32(ix % w), AsI32(ix \div w))

\* Grid::set_ix: the same, through set.  [ret, grid]
Grid_set_ix(g, ix, value) ==
    LET w == g.width
    IN  IF w = 0 THEN [ret |-> Panic, grid |-> g]
        ELSE Grid_set(g, AsI32(ix % w), AsI32(ix \div w), value)

\* SimpleValueGrid::get: self.values[self.get_ix(x, y)]
SimpleValueGrid_get(g, x, y) ==
    LET r == ValueGrid_get_ix(g, x, y)
    IN  IF r.panic \/ ~InVec(r.ix, Len(g.values)) THEN Panic
        ELSE Ok(g.values[r.ix.n + 1])

\* a variant that writes the slot after the one get reads
SimpleValueGrid_set_next(g, x, y, value) ==
    LET r == ValueGrid_get_ix(g, x, y)
    IN  IF r.panic \/ ~InVec(r.ix, Len(g.values)) THEN [ret |-> Panic, grid |-> g]
        ELSE [ret |-> Ok(value),
              grid |-> [g EXCEPT !.values[((r.ix.n + 1) % Len(g.values)) + 1] = value]]

\* SimpleValueGrid::set: self.values[ix] = value.  [ret, grid]
SimpleValueGrid_set(g, x, y, value) ==
    LET r == ValueGrid_get_ix(g, x, y)
    IN  IF r.panic \/ ~InVec(r.ix, Len(g.values)) THEN [ret |-> Panic, grid |-> g]
        ELSE [ret |-> Ok(value),
              grid |-> [g EXCEPT !.values[r.ix.n + 1] = value]]

\* BoolGrid::get: (self.values[ix / 64] & (1 << (ix % 64))) != 0
\* An index near 2^64 divided by 64 is still far beyond any Vec.
BoolGrid_get(g, x, y) ==
    LET r == ValueGrid_get_ix(g, x, y)
    IN  IF r.panic \/ r.ix.top \/ ~InVec(USize(r.ix.n \div WordBits), Len(g.values))
        THEN Panic
        ELSE Ok(BitAnd(g.values[(r.ix.n \div WordBits) + 1],
                       Shl1(r.ix.n % WordBits)) # U64_MIN)

\* a variant that clears with the mask itself instead of its complement
BoolGrid_set_clear_word(g, x, y, value) ==
    LET r == ValueGrid_get_ix(g, x, y)
        w == (r.ix.n \div WordBits) + 1
        b == Shl1(r.ix.n % WordBits)
    IN  IF r.panic \/ r.ix.top \/ ~InVec(USize(r.ix.n \div WordBits), Len(g.values))
        THEN [ret |-> Panic, grid |-> g]
        ELSE IF value
        THEN [ret |-> Ok(value), grid |-> [g EXCEPT !.values[w] = BitOr(@, b)]]
        ELSE [ret |-> Ok(value), grid |-> [g EXCEPT !.values[w] = BitAnd(@, b)]]

\* BoolGrid::set: |= 1 << (ix % 64) for true, &= !(1 << (ix % 64)) for false
\* [ret, grid]
BoolGrid_set(g, x, y, value) ==
    LET r == ValueGrid_get_ix(g, x, y)
        w == (r.ix.n \div WordBits) + 1
        b == Shl1(r.ix.n % WordBits)
    IN  IF r.panic \/ r.ix.top \/ ~InVec(USize(r.ix.n \div WordBits), Len(g.values))
        THEN [ret |-> Panic, grid |-> g]
        ELSE IF value
        THEN [ret |-> Ok(value), grid |-> [g EXCEPT !.values[w] = BitOr(@, b)]]
        ELSE [ret |-> Ok(value), grid |-> [g EXCEPT !.values[w] = BitAnd(@, BitNot(b))]]

\* ValueGrid::get and ValueGrid::set, as the implementor defines them
ValueGrid_get(g, x, y) ==
    IF g.kind = "BoolGrid" THEN BoolGrid_get(g, x, y) ELSE SimpleValueGrid_get(g, x, y)

ValueGrid_set(g, x, y, value) ==
    IF g.kind = "BoolGrid" THEN BoolGrid_set(g, x, y, value)
    ELSE SimpleValueGrid_set(g, x, y, value)

\* ValueGrid::set_rect:
\*   for x in rect.x1..rect.x2 { for y in rect.y1..rect.y2 { self.set(x, y, value); } }
\* s is [ret, grid]; a panicking set ends the loops
RECURSIVE ValueGrid_set_rect_y(_, _, _, _, _)
ValueGrid_set_rect_y(s, x, y, y2, value) ==
    IF s.ret.tag = "Panic" \/ y >= y2 THEN s
    ELSE ValueGrid_set_rect_y(ValueGrid_set(s.grid, x, y, value), x, y + 1, y2, value)

RECURSIVE ValueGrid_set_rect_x(_, _, _, _)
ValueGrid_set_rect_x(s, r, x, value) ==
    IF s.ret.tag = "Panic" \/ x >= r.x2 THEN s
    ELSE ValueGrid_set_rect_x(ValueGrid_set_rect_y(s, x, r.y1, r.y2, value), r, x + 1, value)

ValueGrid_set_rect(g, r, value) ==
    ValueGrid_set_rect_x([ret |-> Ok(value), grid |-> g], r, r.x1, value)

\* ValueGrid::get_rect: rect.points_in() mapped through get_point.  [ret, vec]
ValueGrid_get_rect(g, r) ==
    LET pts == points_in(r)
        got == [i \in 1 .. Len(pts) |-> ValueGrid_get(g, pts[i].x, pts[i].y)]
    IN  IF \E i \in 1 .. Len(pts) : got[i].tag = "Panic"
        THEN [ret |-> Panic, vec |-> <<>>]
        ELSE [ret |-> Ok(dflt), vec |-> [i \in 1 .. Len(pts) |-> got[i].val]]

\* Grid::set_rect:
\*   for p in rect.points_in() { if let Some(r) = self.get_point_mut(p) { *r = value.clone(); } }
RECURSIVE Grid_set_rect_from(_, _, _, _)
Grid_set_rect_from(s, pts, i, value) ==
    IF s.ret.tag = "Panic" \/ i > Len(pts) THEN s
    ELSE LET p == pts[i]
             m == SimpleGrid_get_mut(s.grid, p.x, p.y)
         IN  Grid_set_rect_from(
                 IF m.tag = "Panic" THEN [s EXCEPT !.ret = Panic]
                 ELSE IF m.tag = "None" THEN s
                 ELSE [s EXCEPT !.grid.values[Grid_compute_ix(s.grid, p.x, p.y).ix.n + 1] = value],
                 pts, i + 1, value)

Grid_set_rect(g, r, value) ==
    Grid_set_rect_from([ret |-> Ok(value), grid |-> g], points_in(r), 1, value)

\* Grid::get_rect: rect.points_in() mapped through get_point, the None
\* entries dropped by filter_map.  [ret, vec]
Grid_get_rect(g, r) ==
    LET pts == points_in(r)
        got == [i \in 1 .. Len(pts) |-> SimpleGrid_get(g, pts[i].x, pts[i].y)]
        some == SelectSeq(got, LAMBDA o : o.tag = "Some")
    IN  IF \E i \in 1 .. Len(pts) : got[i].tag = "Panic"
        THEN [ret |-> Panic, vec |-> <<>>]
        ELSE [ret |-> Ok(dflt), vec |-> [i \in 1 .. Len(some) |-> some[i].val]]

----------------------------------------------------------------------------
(* The container under test *)

\* dimensions given to new: the spec's 3 x 2 scenario, its transpose and an
\* empty grid of width 0; for BoolGrid also a grid of exactly 64 cells
\* (8 x 8) and one of 65 cells (13 x 5: cell (11, 4) is bit 63 of word 0,
\* cell (12, 4) is bit 0 of word 1); for SimpleGrid also an empty grid of
\* height 0
GridDims(kind) ==
    IF kind = "BoolGrid" THEN {<<3, 2>>, <<0, 1>>, <<8, 8>>, <<13, 5>>}
    ELSE IF kind = "SimpleGrid" THEN {<<3, 2>>, <<2, 3>>, <<0, 1>>, <<2, 0>>}
    ELSE {<<3, 2>>, <<2, 3>>, <<0, 1>>}

\* element values of the generic containers; BoolGrid holds BOOLEAN
TValues == {"a", "b"}
ElemValues(g) == IF g.kind = "BoolGrid" THEN BOOLEAN ELSE TValues

\* the coordinates calls are made with: the first two and the last two
\* columns and one column off either side; the first and the last row and
\* one row off either side
XProbe(w) == {-1, 0, 1, w - 2, w - 1, w}
YProbe(h) == {-1, 0, h - 1, h}
Probes(g) == XProbe(g.width) \X YProbe(g.height)

\* the rectangles the rectangle calls are made with: one point, a 2 x 2 box
\* at the origin, and a 3 x 3 box one column in, which has a column or a row
\* outside the grids of 6 cells
Rects(g) == {Rect_new(0, 0, 0, 0), Rect_new(0, 0, 1, 1), Rect_new(1, 0, 2, 2)}

\* the linear indices calls are made with: the first, the last and the two
\* after it
IxProbe(g) ==
    {ix \in {0, g.width * g.height - 1, g.width * g.height, g.width * g.height + 1} :
        ix >= 0}

Cells(g) == (0 .. (g.width - 1)) \X (0 .. (g.height - 1))
InBounds(g, x, y) == 0 <= x /\ x < g.width /\ 0 <= y /\ y < g.height

NoGrid == [kind |-> "none", width |-> 0, height |-> 0, values |-> <<>>]
NoCall ==
    [op |-> "none", x |-> 0, y |-> 0, v |-> FALSE, ret |-> [tag |-> "Ok", val |-> FALSE],
     rect |-> NoRect, vec |-> <<>>, ix |-> 0]
GridIdle ==
    /\ grid = NoGrid /\ dflt = FALSE /\ last = <<>> /\ oob = FALSE
    /\ call = NoCall /\ nops = 0

\* the value get reads at an in-bounds cell, as the container's own get gives it
Read(g, x, y) ==
    IF g.kind = "SimpleGrid" THEN SimpleGrid_get(g, x, y)
    ELSE IF g.kind = "SimpleValueGrid" THEN SimpleValueGrid_get(g, x, y)
    ELSE BoolGrid_get(g, x, y)

Running == call.ret.tag # "Panic" /\ nops < MaxOps

IsValueGrid == grid.kind \in {"SimpleValueGrid", "BoolGrid"}

\* a container call leaves the rest of the state alone
GridFrame == UNCHANGED <<overflow_checks, dself, dprev, dcall, rect, rcall>>

\* bookkeeping common to every call
Record(op, x, y, v, ret, r, vec, ix) ==
    /\ call' = [op |-> op, x |-> x, y |-> y, v |-> v, ret |-> ret,
                rect |-> r, vec |-> vec, ix |-> ix]
    /\ nops' = nops + 1

\* a call with coordinates
Called(op, x, y, v, ret) ==
    /\ Record(op, x, y, v, ret, NoRect, <<>>, 0)
    /\ oob' = (oob \/ ~InBounds(grid, x, y))

Wrote(x, y, v, ret) ==
    last' = IF ret.tag # "Panic" /\ InBounds(grid, x, y)
            THEN [last EXCEPT ![<<x, y>>] = v] ELSE last

New(kind, w, h, d) ==
    /\ grid = IF kind = "SimpleGrid" THEN SimpleGrid_new(w, h, d)
              ELSE IF kind = "SimpleValueGrid" THEN SimpleValueGrid_new(w, h, d)
              ELSE BoolGrid_new(w, h, d)
    /\ dflt = d
    /\ last = [c \in (0 .. (w - 1)) \X (0 .. (h - 1)) |-> d]
    /\ oob = FALSE
    /\ call = [op |-> "new", x |-> 0, y |-> 0, v |-> d, ret |-> [tag |-> "Ok", val |-> d],
               rect |-> NoRect, vec |-> <<>>, ix |-> 0]
    /\ nops = 0

\* bookkeeping of a rectangle call that passed the coordinates cs to get or set
CalledRect(op, v, ret, r, vec, cs) ==
    /\ Record(op, 0, 0, v, ret, r, vec, 0)
    /\ oob' = (oob \/ \E c \in cs : ~InBounds(grid, c[1], c[2]))

WroteRect(cs, v, ret) ==
    last' = IF ret.tag # "Panic"
            THEN [c \in DOMAIN last |-> IF c \in cs THEN v ELSE last[c]] ELSE last

\* the coordinates of rect.points_in(), and of the loops x1..x2, y1..y2
ClosedBox(r) == (r.x1 .. r.x2) \X (r.y1 .. r.y2)
HalfOpenBox(r) == (r.x1 .. (r.x2 - 1)) \X (r.y1 .. (r.y2 - 1))

SimpleGridSetRect(r, v) ==
    /\ Running /\ grid.kind = "SimpleGrid"
    /\ LET s == Grid_set_rect(grid, r, v)
       IN  /\ grid' = s.grid
           /\ CalledRect("set_rect", v, s.ret, r, <<>>, ClosedBox(r))
           /\ WroteRect(ClosedBox(r), v, s.ret)
    /\ UNCHANGED dflt
    /\ GridFrame

SimpleGridGetRect(r) ==
    /\ Running /\ grid.kind = "SimpleGrid"
    /\ LET s == Grid_get_rect(grid, r)
       IN  CalledRect("get_rect", dflt, s.ret, r, s.vec, ClosedBox(r))
    /\ UNCHANGED <<grid, dflt, last>>
    /\ GridFrame

ValueGridSetRect(r, v) ==
    /\ Running /\ IsValueGrid
    /\ LET s == ValueGrid_set_rect(grid, r, v)
       IN  /\ grid' = s.grid
           /\ CalledRect("set_rect", v, s.ret, r, <<>>, HalfOpenBox(r))
           /\ WroteRect(HalfOpenBox(r), v, s.ret)
    /\ UNCHANGED dflt
    /\ GridFrame

ValueGridGetRect(r) ==
    /\ Running /\ IsValueGrid
    /\ LET s == ValueGrid_get_rect(grid, r)
       IN  CalledRect("get_rect", dflt, s.ret, r, s.vec, ClosedBox(r))
    /\ UNCHANGED <<grid, dflt, last>>
    /\ GridFrame

\* bookkeeping of a call with a linear index, which the call turns into the
\* coordinates (ix % width, ix / width) unless the width is 0
CalledIx(op, ix, v, ret) ==
    /\ Record(op, 0, 0, v, ret, NoRect, <<>>, ix)
    /\ oob' = (oob \/ ix >= grid.width * grid.height)

SimpleGridGetIx(ix) ==
    /\ Running /\ grid.kind = "SimpleGrid"
    /\ CalledIx("get_ix", ix, dflt, Grid_get_ix(grid, ix))
    /\ UNCHANGED <<grid, dflt, last>>
    /\ GridFrame

SimpleGridGetIxMut(ix) ==
    /\ Running /\ grid.kind = "SimpleGrid"
    /\ CalledIx("get_ix_mut", ix, dflt, Grid_get_ix_mut(grid, ix))
    /\ UNCHANGED <<grid, dflt, last>>
    /\ GridFrame

SimpleGridSetIx(ix, v) ==
    /\ Running /\ grid.kind = "SimpleGrid"
    /\ LET r == Grid_set_ix(grid, ix, v)
       IN  /\ grid' = r.grid
           /\ CalledIx("set_ix", ix, v, r.ret)
           /\ last' = IF r.ret.tag # "Panic" /\ ix < grid.width * grid.height
                      THEN [last EXCEPT ![<<ix % grid.width, ix \div grid.width>>] = v]
                      ELSE last
    /\ UNCHANGED dflt
    /\ GridFrame

SimpleGridGet(x, y) ==
    /\ Running /\ grid.kind = "SimpleGrid"
    /\ Called("get", x, y, dflt, SimpleGrid_get(grid, x, y))
    /\ UNCHANGED <<grid, dflt, last>>
    /\ GridFrame

SimpleGridGetMut(x, y) ==
    /\ Running /\ grid.kind = "SimpleGrid"
    /\ Called("get_mut", x, y, dflt, SimpleGrid_get_mut(grid, x, y))
    /\ UNCHANGED <<grid, dflt, last>>
    /\ GridFrame

SimpleGridSet(x, y, v) ==
    /\ Running /\ grid.kind = "SimpleGrid"
    /\ LET r == Grid_set(grid, x, y, v)
       IN  /\ grid' = r.grid
           /\ Called("set", x, y, v, r.ret)
           /\ Wrote(x, y, v, r.ret)
    /\ UNCHANGED dflt
    /\ GridFrame

SimpleValueGridGet(x, y) ==
    /\ Running /\ grid.kind = "SimpleValueGrid"
    /\ Called("get", x, y, dflt, SimpleValueGrid_get(grid, x, y))
    /\ UNCHANGED <<grid, dflt, last>>
    /\ GridFrame

SimpleValueGridSet(x, y, v) ==
    /\ Running /\ grid.kind = "SimpleValueGrid"
    /\ LET r == SimpleValueGrid_set(grid, x, y, v)
       IN  /\ grid' = r.grid
           /\ Called("set", x, y, v, r.ret)
           /\ Wrote(x, y, v, r.ret)
    /\ UNCHANGED dflt
    /\ GridFrame

BoolGridGet(x, y) ==
    /\ Running /\ grid.kind = "BoolGrid"
    /\ Called("get", x, y, dflt, BoolGrid_get(grid, x, y))
    /\ UNCHANGED <<grid, dflt, last>>
    /\ GridFrame

BoolGridSet(x, y, v) ==
    /\ Running /\ grid.kind = "BoolGrid"
    /\ LET r == BoolGrid_set(grid, x, y, v)
       IN  /\ grid' = r.grid
           /\ Called("set", x, y, v, r.ret)
           /\ Wrote(x, y, v, r.ret)
    /\ UNCHANGED dflt
    /\ GridFrame

----------------------------------------------------------------------------
(* src/direction.rs *)

Direction ==
    <<"NORTH", "NORTHEAST", "EAST", "SOUTHEAST", "SOUTH", "SOUTHWEST", "WEST",
      "NORTHWEST", "NONE">>
Directions == {Direction[i] : i \in 1 .. Len(Direction)}

\* Direction::num: the discriminant, NORTH = 0 .. NONE = 8
num(d) == (CHOOSE i \in 1 .. Len(Direction) : Direction[i] = d) - 1

\* Direction::try_from(i32) followed by unwrap
DOk(v) == [tag |-> "Ok", val |-> v]
DPanic == [tag |-> "Panic", val |-> "NONE"]
try_from_unwrap(i) == IF 0 <= i /\ i < Len(Direction) THEN DOk(Direction[i + 1]) ELSE DPanic

\* i32 + and -: the wrapped result and whether it overflowed
I32Add(a, b) ==
    IF b > 0 /\ a > I32_MAX - b
    THEN [val |-> ((a - I32_MAX) - 1) + ((b - I32_MAX) - 1), ovf |-> TRUE]
    ELSE IF b < 0 /\ a < I32_MIN - b
    THEN [val |-> ((a + I32_MAX) + 1) + ((b + I32_MAX) + 1), ovf |-> TRUE]
    ELSE [val |-> a + b, ovf |-> FALSE]

I32Sub(a, b) ==
    IF b < 0 /\ a > I32_MAX + b
    THEN [val |-> ((a - I32_MAX) - 1) - ((b + I32_MAX) + 1), ovf |-> TRUE]
    ELSE IF b > 0 /\ a < I32_MIN + b
    THEN [val |-> ((a + I32_MAX) + 1) - ((b - I32_MAX) - 1), ovf |-> TRUE]
    ELSE [val |-> a - b, ovf |-> FALSE]

\* i32::rem_euclid for a positive divisor: the remainder in 0 .. m-1
rem_euclid(a, m) == a % m
\* Rust's % : the remainder has the sign of the dividend
rem_trunc(a, m) == IF a >= 0 THEN a % m ELSE -((-a) % m)

\* a variant that keeps the sign of the difference (% instead of rem_euclid)
discrete_angle_rem(self, other) == rem_trunc(num(other) - num(self), 8)

\* a variant that measures from other to self
discrete_angle_swapped(self, other) == rem_euclid(num(self) - num(other), 8)

\* Direction::discrete_angle
discrete_angle(self, other) == rem_euclid(num(other) - num(self), 8)

\* Direction::rotate_cw
rotate_cw(self, eights) ==
    IF self = "NONE" THEN DOk("NONE")
    ELSE LET s == I32Add(num(self), eights)
         IN  IF s.ovf /\ overflow_checks THEN DPanic
             ELSE try_from_unwrap(rem_euclid(s.val, 8))

\* Direction::rotate_ccw
rotate_ccw(self, eights) ==
    IF self = "NONE" THEN DOk("NONE")
    ELSE LET s == I32Sub(num(self), eights)
         IN  IF s.ovf /\ overflow_checks THEN DPanic
             ELSE try_from_unwrap(rem_euclid(s.val, 8))

\* arguments of the rotations
Eights == (-MaxEights .. MaxEights) \cup {I32_MIN, I32_MIN + 1, I32_MAX - 1, I32_MAX}

NoDirCall == [op |-> "none", n |-> 0, other |-> "NONE", angle |-> 0, ret |-> DOk("NONE")]
DirIdle == dself = "NONE" /\ dprev = "NONE" /\ dcall = NoDirCall

DirRunning == dcall.ret.tag # "Panic"

\* a Direction call leaves the rest of the state alone
DirFrame == UNCHANGED <<overflow_checks, grid, dflt, last, oob, call, nops, rect, rcall>>

RotateCw(n) ==
    /\ DirRunning
    /\ LET r == rotate_cw(dself, n)
       IN  /\ dcall' = [op |-> "rotate_cw", n |-> n, other |-> "NONE", angle |-> 0, ret |-> r]
           /\ dself' = IF r.tag = "Ok" THEN r.val ELSE dself
    /\ dprev' = dself
    /\ DirFrame

RotateCcw(n) ==
    /\ DirRunning
    /\ LET r == rotate_ccw(dself, n)
       IN  /\ dcall' = [op |-> "rotate_ccw", n |-> n, other |-> "NONE", angle |-> 0, ret |-> r]
           /\ dself' = IF r.tag = "Ok" THEN r.val ELSE dself
    /\ dprev' = dself
    /\ DirFrame

DiscreteAngle(other) ==
    /\ DirRunning
    /\ dcall' = [op |-> "discrete_angle", n |-> 0, other |-> other,
                 angle |-> discrete_angle(dself, other), ret |-> DOk(dself)]
    /\ UNCHANGED <<dself, dprev>>
    /\ DirFrame

----------------------------------------------------------------------------
(* The Rect under test *)

NoRectCall == [op |-> "none", a |-> 0, pts |-> <<>>, halves |-> <<NoRect, NoRect>>]
RectIdle == rect = NoRect /\ rcall = NoRectCall

\* a Rect call leaves the rest of the state alone
RectFrame ==
    UNCHANGED <<overflow_checks, grid, dflt, last, oob, call, nops, dself, dprev, dcall>>

PointsIn ==
    /\ rcall' = [op |-> "points_in", a |-> 0, pts |-> points_in(rect),
                 halves |-> <<NoRect, NoRect>>]
    /\ UNCHANGED rect
    /\ RectFrame

SplitX(a) ==
    /\ rcall' = [op |-> "split_x", a |-> a, pts |-> <<>>, halves |-> split_x(rect, a)]
    /\ UNCHANGED rect
    /\ RectFrame

SplitY(a) ==
    /\ rcall' = [op |-> "split_y", a |-> a, pts |-> <<>>, halves |-> split_y(rect, a)]
    /\ UNCHANGED rect
    /\ RectFrame

----------------------------------------------------------------------------
(* Specifications *)

InitGrid ==
    /\ overflow_checks \in BOOLEAN
    /\ \E kind \in {"SimpleGrid", "SimpleValueGrid", "BoolGrid"} :
          \E wh \in GridDims(kind), d \in (IF kind = "BoolGrid" THEN BOOLEAN ELSE TValues) :
              New(kind, wh[1], wh[2], d)
    /\ DirIdle /\ RectIdle

NextGrid ==
    \/ \E c \in Probes(grid) : SimpleGridGet(c[1], c[2])
    \/ \E c \in Probes(grid) : SimpleGridGetMut(c[1], c[2])
    \/ \E c \in Probes(grid), v \in TValues : SimpleGridSet(c[1], c[2], v)
    \/ \E c \in Probes(grid) : SimpleValueGridGet(c[1], c[2])
    \/ \E c \in Probes(grid), v \in TValues : SimpleValueGridSet(c[1], c[2], v)
    \/ \E c \in Probes(grid) : BoolGridGet(c[1], c[2])
    \/ \E c \in Probes(grid), v \in BOOLEAN : BoolGridSet(c[1], c[2], v)

SpecGrid == InitGrid /\ [][NextGrid]_vars

\* the provided methods of the two traits, which are written in terms of
\* get, get_mut and set, on a container that set calls have written to
NextGridProvided ==
    \/ \E c \in Probes(grid), v \in TValues : SimpleGridSet(c[1], c[2], v)
    \/ \E c \in Probes(grid), v \in TValues : SimpleValueGridSet(c[1], c[2], v)
    \/ \E c \in Probes(grid), v \in BOOLEAN : BoolGridSet(c[1], c[2], v)
    \/ \E r \in Rects(grid), v \in TValues : SimpleGridSetRect(r, v)
    \/ \E r \in Rects(grid) : SimpleGridGetRect(r)
    \/ \E r \in Rects(grid), v \in ElemValues(grid) : ValueGridSetRect(r, v)
    \/ \E r \in Rects(grid) : ValueGridGetRect(r)
    \/ \E ix \in IxProbe(grid) : SimpleGridGetIx(ix)
    \/ \E ix \in IxProbe(grid) : SimpleGridGetIxMut(ix)
    \/ \E ix \in IxProbe(grid), v \in TValues : SimpleGridSetIx(ix, v)

SpecGridProvided == InitGrid /\ [][NextGridProvided]_vars

InitDirection ==
    /\ overflow_checks \in BOOLEAN
    /\ dself \in Directions /\ dprev = dself /\ dcall = NoDirCall
    /\ GridIdle /\ RectIdle

NextDirection ==
    \/ \E n \in Eights : RotateCw(n)
    \/ \E n \in Eights : RotateCcw(n)
    \/ \E other \in Directions : DiscreteAngle(other)

SpecDirection == InitDirection /\ [][NextDirection]_vars

InitRect ==
    /\ overflow_checks \in BOOLEAN
    /\ \E x \in -MaxCoord .. MaxCoord, y \in -MaxCoord .. MaxCoord,
          w \in -1 .. MaxSize, h \in -1 .. MaxSize : rect = Rect_new(x, y, w, h)
    /\ rcall = NoRectCall
    /\ GridIdle /\ DirIdle

NextRect ==
    \/ PointsIn
    \/ \E a \in -1 .. (MaxSize + 1) : SplitX(a)
    \/ \E a \in -1 .. (MaxSize + 1) : SplitY(a)

SpecRect == InitRect /\ [][NextRect]_vars

----------------------------------------------------------------------------
(* Properties of the containers, checked under SpecGrid (C1 - C5, C11) and *)
(* under SpecGridProvided (C12, C13)                                       *)

\* the result get gives for a stored value v
Got(g, v) == IF g.kind = "SimpleGrid" THEN Some(v) ELSE Ok(v)

\* C1: for BoolGrid, right after new every in-bounds get gives the default,
\* and after any sequence of in-bounds set calls get(x, y) gives the value
\* of the last set to (x, y), or the default if (x, y) was never set; no
\* in-bounds call panics.
C1_BoolGridGetIsLastSet ==
    (grid.kind = "BoolGrid" /\ ~oob) =>
        /\ call.ret.tag # "Panic"
        /\ \A c \in Cells(grid) : BoolGrid_get(grid, c[1], c[2]) = Ok(last[c])
        /\ (call.op = "get" => call.ret = Ok(last[<<call.x, call.y>>]))

\* C1 witness: a 13 x 5 BoolGrid after two in-bounds sets that changed bit 63
\* of word 0 (cell (11, 4)) and bit 0 of word 1 (cell (12, 4)), the cells
\* around them still at the default
C1_Witness ==
    /\ grid.kind = "BoolGrid" /\ grid.width = 13 /\ grid.height = 5 /\ ~oob
    /\ call.op = "set" /\ nops = 2
    /\ BoolGrid_get(grid, 11, 4) = Ok(~dflt)
    /\ BoolGrid_get(grid, 12, 4) = Ok(~dflt)
    /\ BoolGrid_get(grid, 10, 4) = Ok(dflt)
    /\ BoolGrid_get(grid, 0, 0) = Ok(dflt)

\* C2: for SimpleGrid and SimpleValueGrid, a set at an in-bounds (x, y) does
\* not fail, get(x, y) then yields the value set, every other in-bounds cell
\* reads as before the set, and width and height are unchanged.
C2_SetThenGetAndFrame ==
    [][(grid.kind \in {"SimpleGrid", "SimpleValueGrid"} /\ call'.op = "set"
          /\ InBounds(grid, call'.x, call'.y)) =>
        /\ call'.ret.tag # "Panic"
        /\ Read(grid', call'.x, call'.y) = Got(grid, call'.v)
        /\ \A c \in Cells(grid) \ {<<call'.x, call'.y>>} :
               Read(grid', c[1], c[2]) = Read(grid, c[1], c[2])
        /\ grid'.width = grid.width /\ grid'.height = grid.height]_vars

\* C2 witness: a 3 x 2 SimpleGrid after set(1, 1, v) with v not the default,
\* an earlier set having changed another cell
C2_Witness ==
    /\ grid.kind = "SimpleGrid" /\ grid.width = 3 /\ grid.height = 2
    /\ call.op = "set" /\ call.x = 1 /\ call.y = 1 /\ call.v # dflt
    /\ SimpleGrid_get(grid, 1, 1) = Some(call.v)
    /\ \E c \in Cells(grid) \ {<<1, 1>>} : SimpleGrid_get(grid, c[1], c[2]) # Some(dflt)
    /\ \E c \in Cells(grid) \ {<<1, 1>>} : SimpleGrid_get(grid, c[1], c[2]) = Some(dflt)

\* the row-major indices of the in-bounds cells, under either trait
IndexImage(g) ==
    {(IF g.kind = "SimpleGrid" THEN Grid_compute_ix(g, c[1], c[2])
      ELSE ValueGrid_get_ix(g, c[1], c[2])) : c \in Cells(g)}

\* C3: index_in_bounds(x, y) is true iff 0 <= x < width and 0 <= y < height
\* (for both traits), and over the in-bounds cells the row-major index
\* x + y * width is computed without overflow, is injective and has exactly
\* the image 0 .. width * height - 1.
C3_BoundsAndIndex ==
    (grid.kind # "none") =>
        /\ \A x \in -2 .. (grid.width + 1), y \in -2 .. (grid.height + 1) :
              /\ ValueGrid_index_in_bounds(grid, x, y) <=> InBounds(grid, x, y)
              /\ Grid_index_in_bounds(grid, x, y) <=> InBounds(grid, x, y)
        /\ LET image == IndexImage(grid)
           IN  /\ \A r \in image : ~r.panic /\ ~r.ix.top
               /\ Cardinality(image) = Cardinality(Cells(grid))
               /\ {r.ix.n : r \in image} = 0 .. (grid.width * grid.height - 1)

\* C3 witness: a 3 x 2 SimpleValueGrid whose last cell (2, 1), index 5, has
\* just been read
C3_Witness ==
    /\ grid.kind = "SimpleValueGrid" /\ grid.width = 3 /\ grid.height = 2
    /\ call.op = "get" /\ call.x = 2 /\ call.y = 1 /\ call.ret.tag = "Ok"
    /\ ValueGrid_get_ix(grid, 2, 1).ix = USize(5)
    /\ ~ValueGrid_index_in_bounds(grid, 3, 1)

\* C4: for SimpleGrid and out-of-bounds (x, y), get and get_mut return None
\* without failing, and set does not fail and leaves every cell, the width
\* and the height unchanged.
C4_SimpleGridOutOfBounds ==
    [][(grid.kind = "SimpleGrid" /\ ~InBounds(grid, call'.x, call'.y)) =>
        /\ call'.op \in {"get", "get_mut"} => call'.ret = None
        /\ call'.op = "set" => call'.ret.tag # "Panic"
        /\ grid' = grid]_vars

\* C4 witness: a 3 x 2 SimpleGrid holding a non-default cell, right after an
\* out-of-bounds set at x = width in a row that has a row below it
C4_Witness ==
    /\ grid.kind = "SimpleGrid" /\ grid.width = 3 /\ grid.height = 2
    /\ call.op = "set" /\ call.x = 3 /\ call.y = 0 /\ call.v # dflt
    /\ call.ret.tag = "Ok"
    /\ \E c \in Cells(grid) : last[c] # dflt
    /\ \A c \in Cells(grid) : SimpleGrid_get(grid, c[1], c[2]) = Some(last[c])

\* C5: for SimpleValueGrid and BoolGrid, a get or set whose coordinates fail
\* index_in_bounds is rejected with a panic (it never reads or writes an
\* in-bounds cell instead).
C5_ValueGridOutOfBoundsPanics ==
    (IsValueGrid /\ call.op \in {"get", "set"}
       /\ ~ValueGrid_index_in_bounds(grid, call.x, call.y)) =>
        call.ret.tag = "Panic"

\* the words of a BoolGrid are 1 + floor(width * height / 64) many, which is
\* ceil(width * height / 64) or one more, and the word of every in-bounds
\* cell is one of them
WordsCover(g) ==
    LET cells == g.width * g.height
        ceil == (cells + (WordBits - 1)) \div WordBits
        words == Len(g.values)
    IN  /\ words = 1 + (cells \div WordBits)
        /\ ceil <= words /\ words <= ceil + 1
        /\ \A c \in Cells(g) :
               LET r == ValueGrid_get_ix(g, c[1], c[2])
               IN  ~r.panic /\ ~r.ix.top /\ (r.ix.n \div WordBits) < words

\* C11: BoolGrid::new allocates exactly 1 + floor(w * h / 64) words, at least
\* ceil(w * h / 64) and at most one more; for every in-bounds (x, y) the word
\* index (x + y * w) / 64 used by get and set is below the number of words,
\* so an in-bounds get or set does not fail; and no call, set included,
\* changes the number of words: in every state the grid has the dimensions
\* given to new (the cells of the history) and the word count of new.
C11_BoolGridWordCount ==
    (grid.kind = "BoolGrid") =>
        /\ Cells(grid) = DOMAIN last
        /\ WordsCover(grid)
        /\ Len(grid.values) = Len(BoolGrid_new(grid.width, grid.height, dflt).values)
        /\ (call.op \in {"get", "set"} /\ InBounds(grid, call.x, call.y)) =>
               call.ret.tag # "Panic"

\* C11 witness: a 13 x 5 BoolGrid (65 cells, 2 words) right after a set at
\* its last cell (12, 4), the only cell of word 1, which changed that word
\* and left word 0 alone
C11_Witness ==
    /\ grid.kind = "BoolGrid" /\ grid.width = 13 /\ grid.height = 5
    /\ call.op = "set" /\ call.x = 12 /\ call.y = 4 /\ call.v # dflt
    /\ call.ret.tag = "Ok" /\ nops = 1
    /\ Len(grid.values) = 2
    /\ ValueGrid_get_ix(grid, 12, 4).ix.n \div WordBits = 1
    /\ grid.values[2] # BoolGrid_new(13, 5, dflt).values[2]
    /\ grid.values[1] = BoolGrid_new(13, 5, dflt).values[1]

\* get_rect of the container kind
GetRect(g, r) == IF g.kind = "SimpleGrid" THEN Grid_get_rect(g, r) ELSE ValueGrid_get_rect(g, r)

\* C12: in both families, for a rect whose closed box [x1, x2] x [y1, y2]
\* lies in bounds, after set_rect(rect, v) the vector get_rect(rect) has one
\* entry per point of rect.points_in(), every entry is v, and the cells
\* outside the rectangle read as before set_rect.
C12_SetRectThenGetRect ==
    [][(call'.op = "set_rect"
          /\ \A c \in ClosedBox(call'.rect) : InBounds(grid, c[1], c[2])) =>
        LET pts == points_in(call'.rect)
            got == GetRect(grid', call'.rect)
        IN  /\ call'.ret.tag # "Panic"
            /\ got.ret.tag # "Panic"
            /\ got.vec = [i \in 1 .. Len(pts) |-> call'.v]
            /\ \A c \in Cells(grid) \ ClosedBox(call'.rect) :
                   Read(grid', c[1], c[2]) = Read(grid, c[1], c[2])]_vars

\* C13: for a SimpleGrid of any width >= 0 and height >= 0, get_ix(ix),
\* get_ix_mut(ix) and set_ix(ix, v) never fail; for ix < width * height
\* get_ix and get_ix_mut return the element at row-major position ix, the
\* cell get(ix % width, ix / width) returns; for ix >= width * height they
\* return None and set_ix leaves the grid as it was.
C13_LinearIndexNeverFails ==
    [][(grid.kind = "SimpleGrid" /\ call'.op \in {"get_ix", "get_ix_mut", "set_ix"}) =>
        LET ix == call'.ix
            cells == grid.width * grid.height
        IN  /\ call'.ret.tag # "Panic"
            /\ (call'.op \in {"get_ix", "get_ix_mut"} /\ ix < cells) =>
                   /\ call'.ret = Some(grid.values[ix + 1])
                   /\ call'.ret = SimpleGrid_get(grid, ix % grid.width, ix \div grid.width)
            /\ (call'.op \in {"get_ix", "get_ix_mut"} /\ ix >= cells) => call'.ret = None
            /\ (call'.op = "set_ix" /\ ix >= cells) => grid' = grid]_vars

----------------------------------------------------------------------------
(* Properties of Direction, checked under SpecDirection *)

\* C6: for every non-NONE d and every n, d.rotate_cw(8) = d and
\* d.rotate_cw(n).rotate_ccw(n) = d; NONE is fixed by both rotations for
\* every n, and rotating a non-NONE direction never yields NONE.
C6_RotationRoundTrip ==
    (dcall.op \in {"rotate_cw", "rotate_ccw"}) =>
        /\ dcall.ret.tag = "Ok"
        /\ (dprev = "NONE") => dself = "NONE"
        /\ (dprev # "NONE") => dself # "NONE"
        /\ (dprev # "NONE" /\ dcall.op = "rotate_cw" /\ dcall.n = 8) => dself = dprev
        /\ (dprev # "NONE" /\ dcall.op = "rotate_cw") =>
               rotate_ccw(dself, dcall.n) = DOk(dprev)

\* C7: for non-NONE a and b, k = a.discrete_angle(b) is in 0 .. 7,
\* a.rotate_cw(k) = b and a.rotate_ccw(8 - k) = b.
C7_AngleIsClockwiseCount ==
    (dcall.op = "discrete_angle" /\ dself # "NONE" /\ dcall.other # "NONE") =>
        /\ dcall.angle \in 0 .. 7
        /\ rotate_cw(dself, dcall.angle) = DOk(dcall.other)
        /\ rotate_ccw(dself, 8 - dcall.angle) = DOk(dcall.other)

\* C7 witness: SOUTH.discrete_angle(EAST) has returned 6
C7_Witness ==
    /\ dcall.op = "discrete_angle" /\ dself = "SOUTH" /\ dcall.other = "EAST"
    /\ dcall.angle = 6

\* C8: for all a and b among the 9 directions, a.discrete_angle(b) is in
\* 0 .. 7, a.discrete_angle(a) = 0, and for a # b,
\* a.discrete_angle(b) = (8 - b.discrete_angle(a)) % 8.
C8_AngleAntisymmetric ==
    (dcall.op = "discrete_angle") =>
        /\ dcall.angle \in 0 .. 7
        /\ (dcall.other = dself) => dcall.angle = 0
        /\ (dcall.other # dself) =>
               dcall.angle = rem_trunc(8 - discrete_angle(dcall.other, dself), 8)

\* C8 witness: NONE.discrete_angle(NORTHEAST) has returned 1
C8_Witness ==
    /\ dcall.op = "discrete_angle" /\ dself = "NONE" /\ dcall.other = "NORTHEAST"
    /\ dcall.angle = 1

----------------------------------------------------------------------------
(* Properties of Rect, checked under SpecRect *)

WellOrdered(r) == r.x1 <= r.x2 /\ r.y1 <= r.y2

\* every point a rectangle of the model or a half of it can contain, and more
Box ==
    {Point_new(x, y) : x \in (-MaxCoord - 3) .. (MaxCoord + 2 * MaxSize + 3),
                       y \in (-MaxCoord - 3) .. (MaxCoord + 2 * MaxSize + 3)}

\* C9: for w >= 0 and h >= 0, Rect::new(x, y, w, h).points_in() lists
\* exactly (w + 1) * (h + 1) pairwise distinct points, exactly the points p
\* with contains(p), in column-major order (x ascending, then y ascending).
C9_PointsInClosedBox ==
    (rcall.op = "points_in" /\ Rect_width(rect) >= 0 /\ Rect_height(rect) >= 0) =>
        LET pts == rcall.pts
        IN  /\ Len(pts) = (Rect_width(rect) + 1) * (Rect_height(rect) + 1)
            /\ {pts[i] : i \in 1 .. Len(pts)} = {p \in Box : contains(rect, p)}
            /\ \A i \in 1 .. Len(pts), j \in 1 .. Len(pts) :
                   (i < j) =>
                       \/ pts[i].x < pts[j].x
                       \/ (pts[i].x = pts[j].x /\ pts[i].y < pts[j].y)

\* C9 witness: points_in of a rectangle of width 2 and height 1 returned 6 points
C9_Witness ==
    /\ rcall.op = "points_in" /\ Rect_width(rect) = 2 /\ Rect_height(rect) = 1
    /\ Len(rcall.pts) = 6
    /\ rcall.pts[1] = Point_new(rect.x1, rect.y1)
    /\ rcall.pts[2] = Point_new(rect.x1, rect.y1 + 1)

\* C10: for a well-ordered r and 0 <= a < r.width() (resp. r.height()), the
\* halves of r.split_x(a) (resp. split_y(a)) contain no point with x = r.x1 + a
\* (resp. y = r.y1 + a) and do not intersect.
C10_SplitLeavesGap ==
    /\ (rcall.op = "split_x" /\ WellOrdered(rect)
          /\ 0 <= rcall.a /\ rcall.a < Rect_width(rect)) =>
           /\ \A p \in Box : (p.x = rect.x1 + rcall.a) =>
                  ~contains(rcall.halves[1], p) /\ ~contains(rcall.halves[2], p)
           /\ ~intersect(rcall.halves[1], rcall.halves[2])
    /\ (rcall.op = "split_y" /\ WellOrdered(rect)
          /\ 0 <= rcall.a /\ rcall.a < Rect_height(rect)) =>
           /\ \A p \in Box : (p.y = rect.y1 + rcall.a) =>
                  ~contains(rcall.halves[1], p) /\ ~contains(rcall.halves[2], p)
           /\ ~intersect(rcall.halves[1], rcall.halves[2])

====
